---- MODULE Spec2Model ----
(***************************************************************************)
(* Model of find_largest_files.py: the scanner (find_largest_files), the   *)
(* size formatter (format_size), the reporter (print_file_sizes,           *)
(* print_error_report) and the entry point (main).                         *)
(*                                                                         *)
(* A run of main is a sequence of steps over the locals of the three       *)
(* functions, standard output and the -o file.  The file system and the    *)
(* output encodings are the environment: what is_file() and stat() answer  *)
(* for a path is chosen when the traversal reaches it, the order in which  *)
(* rglob/glob yields the paths is arbitrary, and the encoding of standard  *)
(* output is fixed at start-up.                                            *)
(*                                                                         *)
(* Text is a sequence of character classes:                                *)
(*   "a", "b"  ASCII characters                                            *)
(*   "u"       a valid non-ASCII character (e.g. U+6587)                   *)
(*   "s"       a lone surrogate U+DC80..U+DCFF, what os.fsdecode gives for  *)
(*             an undecodable byte of a file name (surrogateescape)        *)
(*   "r"       U+FFFD, the replacement character                           *)
(*   "x"       the ASCII escape "\udc80" that repr() writes for "s"        *)
(*                                                                         *)
(* A byte count given to format_size is a little-endian sequence of        *)
(* base-1024 digits without a leading zero digit (<< >> is 0), so that     *)
(* counts beyond 1024^5 stay inside the model checker's integers.          *)
(***************************************************************************)
EXTENDS Integers, Sequences, FiniteSets, TLC

VARIABLES
    pc,               \* position of the run in main
    directory_is_dir, \* directory.is_dir(), line 192
    args,             \* the parsed command line, lines 46-93
    stdout_encoding,  \* sys.stdout.encoding (errors="strict")
    walked,           \* what the iteration of `pattern` has yielded so far, with the file system's answers
    scan_file_sizes,  \* find_largest_files: file_sizes
    scan_error_paths, \* find_largest_files: error_paths
    file_count,       \* find_largest_files: file_count
    file_sizes,       \* main: file_sizes
    error_paths,      \* main: error_paths
    unicode_errors,   \* print_file_sizes: unicode_errors, then main: unicode_errors
    next_entry,       \* print_file_sizes: index of the entry the loop of line 156 handles next
    output_file,      \* print_file_sizes: output_file ("none", "open", "closed")
    stdout,           \* the lines printed to standard output
    file_lines,       \* the lines written to the -o file
    exit_code,        \* what main returned ("none" before; "raised" for an uncaught exception)
    size,             \* format_size: the argument (standalone use)
    result            \* format_size: the returned string (standalone use)

vars == <<pc, directory_is_dir, args, stdout_encoding, walked, scan_file_sizes,
          scan_error_paths, file_count, file_sizes, error_paths, unicode_errors,
          next_entry, output_file, stdout, file_lines, exit_code, size, result>>

mainVars == <<pc, directory_is_dir, args, stdout_encoding, walked, scan_file_sizes,
              scan_error_paths, file_count, file_sizes, error_paths, unicode_errors,
              next_entry, output_file, stdout, file_lines, exit_code>>

fmtVars == <<size, result>>

----------------------------------------------------------------------------
(* Bounds *)

MaxSize == 3        \* file sizes are 1..MaxSize
MaxNum == 2         \* -n takes a value in -1..MaxNum
MaxDigits == 7      \* byte counts given to format_size are below 1024^MaxDigits

(* Program constants *)

ProgressEvery == 1000
Base == 1024

----------------------------------------------------------------------------
(* Paths and text *)

\* the entries under the directory: the name as str(path) shows it, and how
\* deep the entry lies (1: a direct child)
Paths ==
    { [name |-> <<"a">>, depth |-> 1],
      [name |-> <<"u">>, depth |-> 1],
      [name |-> <<"b", "s">>, depth |-> 2] }

\* str(path)
Str(path) == path.name

\* the characters an encoder with errors="strict" can encode
CanEncode(encoding, c) ==
    IF encoding = "utf-8" THEN c /= "s" ELSE c \in {"a", "b", "x"}

Encodable(encoding, text) == \A i \in 1..Len(text) : CanEncode(encoding, text[i])

\* str(path).encode("utf-8", errors="surrogateescape").decode("utf-8", errors="replace")
SafeRender(text) == [i \in 1..Len(text) |-> IF text[i] = "s" THEN "r" ELSE text[i]]

\* repr(str(path))
Repr(text) == [i \in 1..Len(text) |-> IF text[i] = "s" THEN "x" ELSE text[i]]

----------------------------------------------------------------------------
(* format_size *)

Units == <<"B", "KB", "MB", "GB", "TB">>

\* the value digits / 1024^shift that the local `size` holds
Value(digits, shift) == [digits |-> digits, shift |-> shift]

\* int -> digits, for the sizes of the model's files (all below 1024)
Digits(n) == IF n = 0 THEN << >> ELSE <<n>>

\* size <= 1024.0
AtMost1024(v) ==
    \/ \A i \in (v.shift + 2)..Len(v.digits) : v.digits[i] = 0
    \/ /\ Len(v.digits) = v.shift + 2
       /\ v.digits[v.shift + 2] = 1
       /\ \A i \in 1..(v.shift + 1) : v.digits[i] = 0

\* size < 1024.0
LessThan1024(v) == \A i \in (v.shift + 2)..Len(v.digits) : v.digits[i] = 0

\* size /= 1024.0
Div1024(v) == [v EXCEPT !.shift = @ + 1]

RECURSIVE format_loop(_, _)
format_loop(v, k) ==
    IF k > Len(Units) THEN [unit |-> "PB", value |-> v]
    ELSE IF LessThan1024(v) THEN [unit |-> Units[k], value |-> v]
    ELSE format_loop(Div1024(v), k + 1)

\* the string f"{size:.1f}{unit}": the unit and the value that is rendered.
\* The decimal rendering of the value is left out.  The value is kept exact:
\* dividing a float by 1024.0 is exact, and an int of 2^53 or more, which the
\* first division rounds, is beyond 1024^5 and ends in PB whatever the rounding.
format_size(digits) == format_loop(Value(digits, 0), 1)

\* f"{size}"
RawSize(n) == [unit |-> "", value |-> Value(Digits(n), 0)]

NoSize == [unit |-> "-", value |-> Value(<< >>, 0)]

----------------------------------------------------------------------------
(* Output lines *)

Line(kind, sz, text) == [kind |-> kind, size |-> sz, text |-> text]

\* f"{size_str:>10}\t{path}" or f"{size}\t{path}" (the padding is left out)
EntryLine(kind, sz, text) ==
    Line(kind, IF args.human_readable THEN format_size(Digits(sz)) ELSE RawSize(sz), text)

Kinds(lines) == {lines[i].kind : i \in 1..Len(lines)}

----------------------------------------------------------------------------
(* find_largest_files *)

\* the entries `pattern` yields: rglob("*") or glob("*")
Candidates == IF args.no_recursive THEN {p \in Paths : p.depth = 1} ELSE Paths

WalkedPaths == {walked[i].path : i \in 1..Len(walked)}

\* what the file system answers for one path: path.is_file(), and for a file
\* path.stat(), which raises OSError (stat_ok = FALSE) or gives st_size
Answers ==
    { [is_file |-> FALSE, stat_ok |-> FALSE, st_size |-> 0],
      [is_file |-> TRUE, stat_ok |-> FALSE, st_size |-> 0] }
    \cup { [is_file |-> TRUE, stat_ok |-> TRUE, st_size |-> n] : n \in 1..MaxSize }

\* the except branch without the append
RecordErrorDropped(errs, path) == errs

\* error_paths.append(path)
RecordError(errs, path) == Append(errs, path)

\* insertion that puts e in front of the entries of equal size
InsertDescFirst(sorted, e) ==
    LET before == {i \in 1..Len(sorted) : sorted[i].size > e.size}
        n == Cardinality(before)
    IN SubSeq(sorted, 1, n) \o <<e>> \o SubSeq(sorted, n + 1, Len(sorted))

\* insertion that keeps e behind the entries of equal or larger size
InsertDesc(sorted, e) ==
    LET before == {i \in 1..Len(sorted) : sorted[i].size >= e.size}
        n == Cardinality(before)
    IN SubSeq(sorted, 1, n) \o <<e>> \o SubSeq(sorted, n + 1, Len(sorted))

\* file_sizes.sort(key=lambda pair: pair[0], reverse=True)
RECURSIVE SortDesc(_)
SortDesc(seq) ==
    IF seq = << >> THEN << >>
    ELSE InsertDesc(SortDesc(SubSeq(seq, 1, Len(seq) - 1)), seq[Len(seq)])

----------------------------------------------------------------------------
(* main: the steps of one run *)

\* args.num is << >> for None and <<n>> for -n n; args.output is << >> for None
NumValues == {<< >>} \cup {<<n>> : n \in -1..MaxNum}
OutputValues == {<< >>, <<"out.txt">>, <<"missing/out.txt">>}

\* open(args.output, "w", encoding="utf-8") succeeds
Opens(output) == output = <<"out.txt">>

Terminated == pc \in {"done", "raised"}

\* the encoding write_line encodes with: the file's (line 144) or standard output's
WriteEncoding == IF output_file = "open" THEN "utf-8" ELSE stdout_encoding

\* The messages that name args.directory or args.output (lines 146, 183, 193,
\* 205) are taken to be encodable by standard output.
InitMain ==
    /\ pc = "main"
    /\ directory_is_dir \in BOOLEAN
    /\ args \in [num : NumValues, human_readable : BOOLEAN,
                 no_recursive : BOOLEAN, output : OutputValues]
    /\ stdout_encoding \in {"utf-8", "ascii"}
    /\ walked = << >>
    /\ scan_file_sizes = << >>
    /\ scan_error_paths = << >>
    /\ file_count = 0
    /\ file_sizes = << >>
    /\ error_paths = << >>
    /\ unicode_errors = << >>
    /\ next_entry = 1
    /\ output_file = "none"
    /\ stdout = << >>
    /\ file_lines = << >>
    /\ exit_code = "none"

\* lines 192-194
CheckDirectory ==
    /\ pc = "main"
    /\ IF directory_is_dir
       THEN /\ pc' = "scan"
            /\ UNCHANGED <<stdout, exit_code>>
       ELSE /\ stdout' = Append(stdout, Line("not_a_directory", NoSize, << >>))
            /\ exit_code' = "1"
            /\ pc' = "done"
    /\ UNCHANGED <<directory_is_dir, args, stdout_encoding, walked, scan_file_sizes,
                   scan_error_paths, file_count, file_sizes, error_paths,
                   unicode_errors, next_entry, output_file, file_lines>>
    /\ UNCHANGED fmtVars

\* lines 19-30: one iteration of the loop over `pattern`
Visit ==
    /\ pc = "scan"
    /\ \E path \in Candidates \ WalkedPaths :
       \E answer \in Answers :
          /\ walked' = Append(walked, [path |-> path, is_file |-> answer.is_file,
                                       stat_ok |-> answer.stat_ok, st_size |-> answer.st_size])
          /\ IF ~answer.is_file
             THEN UNCHANGED <<scan_file_sizes, scan_error_paths, file_count, stdout>>
             ELSE IF ~answer.stat_ok
             THEN /\ scan_error_paths' = RecordError(scan_error_paths, path)
                  /\ UNCHANGED <<scan_file_sizes, file_count, stdout>>
             ELSE /\ scan_file_sizes' = Append(scan_file_sizes,
                                               [size |-> answer.st_size, path |-> path])
                  /\ file_count' = file_count + 1
                  /\ stdout' = IF (file_count + 1) % ProgressEvery = 0
                               THEN Append(stdout, Line("progress", RawSize(file_count + 1), << >>))
                               ELSE stdout
                  /\ UNCHANGED scan_error_paths
    /\ UNCHANGED <<pc, directory_is_dir, args, stdout_encoding, file_sizes, error_paths,
                   unicode_errors, next_entry, output_file, file_lines, exit_code>>
    /\ UNCHANGED fmtVars

\* lines 31-34 and the assignment of line 196
FinishScan ==
    /\ pc = "scan"
    /\ Candidates \ WalkedPaths = {}
    /\ stdout' = IF file_count > 0
                 THEN Append(stdout, Line("scanned_total", RawSize(file_count), << >>))
                 ELSE stdout
    /\ scan_file_sizes' = SortDesc(scan_file_sizes)
    /\ file_sizes' = scan_file_sizes'
    /\ error_paths' = scan_error_paths
    /\ pc' = "limit"
    /\ UNCHANGED <<directory_is_dir, args, stdout_encoding, walked, scan_error_paths,
                   file_count, unicode_errors, next_entry, output_file, file_lines,
                   exit_code>>
    /\ UNCHANGED fmtVars

Min(a, b) == IF a <= b THEN a ELSE b
Max(a, b) == IF a >= b THEN a ELSE b

\* seq[: n - 1]
PrefixOffByOne(seq, n) ==
    IF n >= 0 THEN SubSeq(seq, 1, Min(Max(n - 1, 0), Len(seq)))
    ELSE SubSeq(seq, 1, Max(Len(seq) + n, 0))

\* seq[:n], for a negative n too
Prefix(seq, n) ==
    IF n >= 0 THEN SubSeq(seq, 1, Min(n, Len(seq)))
    ELSE SubSeq(seq, 1, Max(Len(seq) + n, 0))

\* lines 200-202
LimitResults ==
    /\ pc = "limit"
    /\ file_sizes' = IF args.num /= << >> THEN Prefix(file_sizes, args.num[1]) ELSE file_sizes
    /\ pc' = "check_empty"
    /\ UNCHANGED <<directory_is_dir, args, stdout_encoding, walked, scan_file_sizes,
                   scan_error_paths, file_count, error_paths, unicode_errors,
                   next_entry, output_file, stdout, file_lines, exit_code>>
    /\ UNCHANGED fmtVars

\* lines 204-206
NoFilesFound ==
    /\ pc = "check_empty"
    /\ file_sizes = << >>
    /\ stdout' = Append(stdout, Line("no_files_found", NoSize, << >>))
    /\ exit_code' = "0"
    /\ pc' = "done"
    /\ UNCHANGED <<directory_is_dir, args, stdout_encoding, walked, scan_file_sizes,
                   scan_error_paths, file_count, file_sizes, error_paths,
                   unicode_errors, next_entry, output_file, file_lines>>
    /\ UNCHANGED fmtVars

\* the except branch of line 145 without its return: the error is printed and
\* the listing goes on, to standard output
OpenOutputFailsNoReturn ==
    /\ pc = "check_empty"
    /\ file_sizes /= << >>
    /\ args.output /= << >>
    /\ ~Opens(args.output)
    /\ stdout' = stdout \o <<Line("open_error", NoSize, << >>), Line("header", NoSize, << >>)>>
    /\ unicode_errors' = << >>
    /\ next_entry' = 1
    /\ pc' = "listing"
    /\ UNCHANGED <<directory_is_dir, args, stdout_encoding, walked, scan_file_sizes,
                   scan_error_paths, file_count, file_sizes, error_paths, output_file,
                   file_lines, exit_code>>
    /\ UNCHANGED fmtVars

\* line 208 into print_file_sizes, lines 137-147: open() raises IOError; the
\* function returns its two empty lists, which line 208 assigns
OpenOutputFails ==
    /\ pc = "check_empty"
    /\ file_sizes /= << >>
    /\ args.output /= << >>
    /\ ~Opens(args.output)
    /\ stdout' = Append(stdout, Line("open_error", NoSize, << >>))
    /\ unicode_errors' = << >>
    /\ error_paths' = << >>
    /\ pc' = "report"
    /\ UNCHANGED <<directory_is_dir, args, stdout_encoding, walked, scan_file_sizes,
                   scan_error_paths, file_count, file_sizes, next_entry, output_file,
                   file_lines, exit_code>>
    /\ UNCHANGED fmtVars

\* line 208 into print_file_sizes, lines 137-155: the destination is chosen
\* and the header line written to it
StartListing ==
    /\ pc = "check_empty"
    /\ file_sizes /= << >>
    /\ args.output = << >> \/ Opens(args.output)
    /\ unicode_errors' = << >>
    /\ next_entry' = 1
    /\ IF args.output /= << >>
       THEN /\ output_file' = "open"
            /\ file_lines' = <<Line("header", NoSize, << >>)>>
            /\ UNCHANGED stdout
       ELSE /\ stdout' = Append(stdout, Line("header", NoSize, << >>))
            /\ UNCHANGED <<output_file, file_lines>>
    /\ pc' = "listing"
    /\ UNCHANGED <<directory_is_dir, args, stdout_encoding, walked, scan_file_sizes,
                   scan_error_paths, file_count, file_sizes, error_paths, exit_code>>
    /\ UNCHANGED fmtVars

\* lines 156-179: one iteration of the loop over the entries
WriteEntry ==
    /\ pc = "listing"
    /\ next_entry <= Len(file_sizes)
    /\ LET entry == file_sizes[next_entry]
           path_str == Str(entry.path)
           path_safe == SafeRender(path_str)
           text == IF Encodable(WriteEncoding, path_str) THEN path_str ELSE path_safe
           line == EntryLine("entry", entry.size, text)
       IN /\ unicode_errors' = IF Encodable(WriteEncoding, path_str)
                               THEN unicode_errors
                               ELSE Append(unicode_errors, entry)
          /\ IF Encodable(WriteEncoding, text)
             THEN /\ IF output_file = "open"
                     THEN file_lines' = Append(file_lines, line) /\ UNCHANGED stdout
                     ELSE stdout' = Append(stdout, line) /\ UNCHANGED file_lines
                  /\ next_entry' = next_entry + 1
                  /\ UNCHANGED <<pc, exit_code>>
             ELSE \* the write_line of line 177 or 179 raises UnicodeEncodeError
                  /\ pc' = "raised"
                  /\ exit_code' = "raised"
                  /\ UNCHANGED <<stdout, file_lines, next_entry>>
    /\ UNCHANGED <<directory_is_dir, args, stdout_encoding, walked, scan_file_sizes,
                   scan_error_paths, file_count, file_sizes, error_paths, output_file>>
    /\ UNCHANGED fmtVars

\* lines 181-185; line 208 assigns the two returned lists
FinishListing ==
    /\ pc = "listing"
    /\ next_entry > Len(file_sizes)
    /\ IF output_file = "open"
       THEN /\ output_file' = "closed"
            /\ stdout' = Append(stdout, Line("results_saved", NoSize, << >>))
       ELSE UNCHANGED <<output_file, stdout>>
    /\ error_paths' = << >>
    /\ pc' = "report"
    /\ UNCHANGED <<directory_is_dir, args, stdout_encoding, walked, scan_file_sizes,
                   scan_error_paths, file_count, file_sizes, unicode_errors,
                   next_entry, file_lines, exit_code>>
    /\ UNCHANGED fmtVars

\* lines 110-116: the line of one access-failed path, with the fallback of
\* the except branch
AccessLines(errs) ==
    [i \in 1..Len(errs) |->
        Line("access_error", NoSize,
             IF Encodable(stdout_encoding, Str(errs[i]))
             THEN Str(errs[i]) ELSE SafeRender(Str(errs[i])))]

\* lines 122-131: the two lines of one display-error entry
RECURSIVE UnicodeLines(_)
UnicodeLines(errs) ==
    IF errs = << >> THEN << >>
    ELSE <<EntryLine("unicode_error", errs[1].size, SafeRender(Str(errs[1].path))),
           Line("raw", NoSize, Repr(Str(errs[1].path)))>>
         \o UnicodeLines(Tail(errs))

\* the lines print_error_report prints when no print raises, lines 102-131
ErrorReportLines(unicode_errs, errs) ==
    <<Line("rule", NoSize, << >>), Line("error_report", NoSize, << >>),
      Line("rule", NoSize, << >>)>>
    \o (IF errs /= << >>
        THEN <<Line("access_heading", RawSize(Len(errs)), << >>)>> \o AccessLines(errs)
        ELSE << >>)
    \o (IF unicode_errs /= << >>
        THEN <<Line("unicode_heading", RawSize(Len(unicode_errs)), << >>)>>
             \o UnicodeLines(unicode_errs)
        ELSE << >>)

\* the lines that reach standard output: those before the first print that
\* raises UnicodeEncodeError
RECURSIVE Printed(_)
Printed(lines) ==
    IF lines = << >> \/ ~Encodable(stdout_encoding, lines[1].text) THEN << >>
    ELSE <<lines[1]>> \o Printed(Tail(lines))

\* if error_paths or unicode_errors, line 210
NeedsErrorReport == error_paths /= << >> \/ unicode_errors /= << >>

\* lines 210-213
Report ==
    /\ pc = "report"
    /\ LET lines == IF NeedsErrorReport
                    THEN ErrorReportLines(unicode_errors, error_paths) ELSE << >>
           printed == Printed(lines)
       IN /\ stdout' = stdout \o printed
          /\ IF printed = lines
             THEN pc' = "done" /\ exit_code' = "0"
             ELSE pc' = "raised" /\ exit_code' = "raised"
    /\ UNCHANGED <<directory_is_dir, args, stdout_encoding, walked, scan_file_sizes,
                   scan_error_paths, file_count, file_sizes, error_paths,
                   unicode_errors, next_entry, output_file, file_lines>>
    /\ UNCHANGED fmtVars

----------------------------------------------------------------------------
(* format_size on its own *)

\* the digits the byte counts are drawn from
DigitValues == {0, 1, Base - 1}

\* byte counts: digit sequences without a leading zero digit
Sizes ==
    UNION { {d \in [1..n -> DigitValues] : n > 0 => d[n] /= 0} : n \in 0..MaxDigits }

NoResult == [unit |-> "none", value |-> Value(<< >>, 0)]

\* size + 1
RECURSIVE Successor(_)
Successor(digits) ==
    IF digits = << >> THEN <<1>>
    ELSE IF digits[1] = Base - 1 THEN <<0>> \o Successor(Tail(digits))
    ELSE <<digits[1] + 1>> \o Tail(digits)

\* 1024^Len(digits) - 1, the largest count with as many digits
Fill(digits) == [i \in 1..Len(digits) |-> Base - 1]

\* size * 1024
Times1024(digits) == IF digits = << >> THEN << >> ELSE <<0>> \o digits

\* a <= b as byte counts
RECURSIVE LessEq(_, _)
LessEq(a, b) ==
    IF Len(a) /= Len(b) THEN Len(a) < Len(b)
    ELSE IF a = << >> THEN TRUE
    ELSE IF a[Len(a)] /= b[Len(b)] THEN a[Len(a)] < b[Len(b)]
    ELSE LessEq(SubSeq(a, 1, Len(a) - 1), SubSeq(b, 1, Len(b) - 1))

InitFormat ==
    /\ size \in Sizes
    /\ result = NoResult

\* a call of format_size(size), lines 37-43
Format ==
    /\ result = NoResult
    /\ result' = format_size(size)
    /\ UNCHANGED size
    /\ UNCHANGED mainVars

\* a call on a larger byte count
FormatLarger ==
    /\ result /= NoResult
    /\ \E bigger \in {Successor(size), Fill(size), Times1024(size)} :
          /\ bigger \in Sizes
          /\ bigger /= size
          /\ size' = bigger
          /\ result' = format_size(bigger)
    /\ UNCHANGED mainVars

----------------------------------------------------------------------------
(* Specifications *)

Init ==
    /\ InitMain
    /\ size = << >>
    /\ result = NoResult

Next ==
    \/ CheckDirectory
    \/ Visit
    \/ FinishScan
    \/ LimitResults
    \/ NoFilesFound
    \/ OpenOutputFails
    \/ StartListing
    \/ WriteEntry
    \/ FinishListing
    \/ Report

Spec == Init /\ [][Next]_vars

InitFormatOnly ==
    /\ InitFormat
    /\ pc = "format"
    /\ directory_is_dir = TRUE
    /\ args = [num |-> << >>, human_readable |-> TRUE, no_recursive |-> FALSE,
               output |-> << >>]
    /\ stdout_encoding = "utf-8"
    /\ walked = << >>
    /\ scan_file_sizes = << >>
    /\ scan_error_paths = << >>
    /\ file_count = 0
    /\ file_sizes = << >>
    /\ error_paths = << >>
    /\ unicode_errors = << >>
    /\ next_entry = 1
    /\ output_file = "none"
    /\ stdout = << >>
    /\ file_lines = << >>
    /\ exit_code = "none"

NextFormat == Format \/ FormatLarger

SpecFormat == InitFormatOnly /\ [][NextFormat]_vars

----------------------------------------------------------------------------
(* Properties *)

\* the traversal's regular files whose size was read, in traversal order
IsSized(w) == w.is_file /\ w.stat_ok
Sized == SelectSeq(walked, IsSized)

\* the position at which the traversal yielded a path
Position(path) == CHOOSE i \in 1..Len(walked) : walked[i].path = path

Occurrences(seq, x) == Cardinality({i \in 1..Len(seq) : seq[i] = x})

ScanReturned == directory_is_dir /\ pc \in {"limit", "check_empty", "listing", "report", "done", "raised"}

\* the destination of the listing and the entry lines written to it
Listing == IF args.output /= << >> THEN file_lines ELSE stdout
IsEntryLine(l) == l.kind = "entry"
EntryLines == SelectSeq(Listing, IsEntryLine)

ListingKinds == {"header", "entry"}
ReportKinds == {"rule", "error_report", "access_heading", "access_error",
                "unicode_heading", "unicode_error", "raw"}

\* a line shows a path: its text is the path's string or its lossy rendering
Shows(line, path) == line.text \in {Str(path), SafeRender(Str(path))}

\* C1: in a run on a valid directory whose scan recorded an access-failed
\* path and that wrote the listing, main prints the error report section after
\* the listing, the section lists every path of the scanner's error list, and
\* no such path is in the table.
AccessErrorsReported ==
    (pc = "done" /\ directory_is_dir /\ scan_error_paths /= << >>
     /\ "header" \in Kinds(Listing))
    => /\ \E i \in 1..Len(stdout) :
             /\ stdout[i].kind = "error_report"
             /\ \A j \in 1..Len(stdout) : stdout[j].kind \in ListingKinds => j < i
       /\ \A k \in 1..Len(scan_error_paths) :
             \E i \in 1..Len(stdout) :
                stdout[i].kind = "access_error" /\ Shows(stdout[i], scan_error_paths[k])
       /\ \A k \in 1..Len(scan_error_paths) :
             \A i \in 1..Len(EntryLines) : ~Shows(EntryLines[i], scan_error_paths[k])

\* C2: what find_largest_files returns is the stable descending sort of the
\* sized entries: a permutation of them, sizes non-increasing, and entries of
\* equal size in the order in which the traversal yielded them.
SortedStable ==
    ScanReturned
    => /\ Len(scan_file_sizes) = Len(Sized)
       /\ \A i \in 1..Len(Sized) :
             Occurrences(scan_file_sizes,
                         [size |-> Sized[i].st_size, path |-> Sized[i].path]) = 1
       /\ \A i, j \in 1..Len(scan_file_sizes) :
             i < j => /\ scan_file_sizes[i].size >= scan_file_sizes[j].size
                      /\ scan_file_sizes[i].size = scan_file_sizes[j].size
                         => Position(scan_file_sizes[i].path)
                            < Position(scan_file_sizes[j].path)

\* three entries returned, two of equal size that the sort had to move behind
\* a larger one found after them
SortedStableWitness ==
    /\ ScanReturned
    /\ Len(scan_file_sizes) >= 3
    /\ scan_file_sizes[2].size = scan_file_sizes[3].size
    /\ scan_file_sizes[1].size > scan_file_sizes[2].size
    /\ Position(scan_file_sizes[1].path) > Position(scan_file_sizes[3].path)

\* C3: main returns 1 exactly when the directory argument is not a directory,
\* and then prints the error message and scans and lists nothing; every other
\* run returns 0.
ExitCodeContract ==
    Terminated
    => /\ exit_code = "1" <=> ~directory_is_dir
       /\ directory_is_dir => exit_code = "0"
       /\ ~directory_is_dir
          => /\ stdout = <<Line("not_a_directory", NoSize, << >>)>>
             /\ walked = << >>
             /\ file_lines = << >>

\* C4: during and after the scan every regular file the traversal has yielded
\* is in exactly one of the two results, the entry list if its size was read
\* and the error list if stat raised; nothing else is in either; and the
\* scan returns only when the traversal is exhausted.
ScanPartition ==
    /\ \A i \in 1..Len(walked) :
          LET w == walked[i]
              entries == Cardinality({j \in 1..Len(scan_file_sizes) :
                                         scan_file_sizes[j].path = w.path})
              errors == Occurrences(scan_error_paths, w.path)
          IN /\ (w.is_file /\ w.stat_ok)
                => /\ entries = 1 /\ errors = 0
                   /\ Occurrences(scan_file_sizes, [size |-> w.st_size, path |-> w.path]) = 1
             /\ (w.is_file /\ ~w.stat_ok) => entries = 0 /\ errors = 1
             /\ ~w.is_file => entries = 0 /\ errors = 0
    /\ Len(scan_file_sizes) + Len(scan_error_paths)
          = Cardinality({i \in 1..Len(walked) : walked[i].is_file})
    /\ ScanReturned => WalkedPaths = Candidates

\* the scan has returned, and a file whose stat raised was followed by one
\* whose size was read
ScanPartitionWitness ==
    /\ ScanReturned
    /\ \E i, j \in 1..Len(walked) :
          /\ i < j
          /\ walked[i].is_file /\ ~walked[i].stat_ok
          /\ walked[j].is_file /\ walked[j].stat_ok
          /\ \E k \in 1..Len(scan_file_sizes) : scan_file_sizes[k].path = walked[j].path

\* C5: without -o, on a directory with files, the first lines on standard
\* output are the file lines in descending size order, nothing before them.
ListingStartsOutput ==
    (pc = "done" /\ directory_is_dir /\ args.output = << >> /\ args.num = << >>
     /\ scan_file_sizes /= << >>)
    => /\ Len(stdout) >= Len(scan_file_sizes)
       /\ \A i \in 1..Min(2, Len(scan_file_sizes)) :
             stdout[i].kind = "entry" /\ Shows(stdout[i], scan_file_sizes[i].path)

\* C6: with -n N, N >= 0, the entries given to the reporter are the first
\* min(N, total) entries of the scanner's sorted sequence, and without -n all
\* of them; no listing line is written before the truncation; the entry lines
\* written are lines of these entries, in order.
TruncationIsPrefix ==
    /\ pc \in {"check_empty", "listing", "report", "done", "raised"}
       => /\ args.num = << >> => file_sizes = scan_file_sizes
          /\ (args.num /= << >> /\ args.num[1] >= 0)
             => file_sizes = SubSeq(scan_file_sizes, 1,
                                    Min(args.num[1], Len(scan_file_sizes)))
    /\ pc \in {"main", "scan", "limit", "check_empty"}
       => Kinds(stdout) \cap ListingKinds = {} /\ file_lines = << >>
    /\ pc = "limit"
       => /\ file_sizes = scan_file_sizes
          /\ \A i, j \in 1..Len(scan_file_sizes) :
                i < j => scan_file_sizes[i].size >= scan_file_sizes[j].size
    /\ Len(EntryLines) <= Len(file_sizes)
    /\ \A i \in 1..Len(EntryLines) :
          /\ Shows(EntryLines[i], file_sizes[i].path)
          /\ EntryLines[i].size.value.digits = Digits(file_sizes[i].size)
    /\ pc \in {"report", "done"} /\ "header" \in Kinds(Listing)
       => Len(EntryLines) = Len(file_sizes)

\* -n 2 cut a sorted sequence of three entries and the two lines were written
TruncationIsPrefixWitness ==
    /\ pc = "done"
    /\ args.num = <<2>>
    /\ Len(scan_file_sizes) = 3
    /\ Len(file_sizes) = 2
    /\ Len(EntryLines) = 2

\* the entries whose line the destination's encoding cannot encode
Unencodable(encoding) ==
    LET Fails(e) == ~Encodable(encoding, Str(e.path))
    IN SelectSeq(file_sizes, Fails)

ListingEncoding == IF args.output /= << >> THEN "utf-8" ELSE stdout_encoding

\* C7: whatever entries have a line the destination cannot encode, the run
\* is not aborted, the listing gets one line per entry in input order, and
\* the display-error list returned holds exactly the unencodable entries, in
\* listing order.
DisplayErrorsHandled ==
    /\ exit_code /= "raised"
    /\ (pc \in {"report", "done"} /\ "header" \in Kinds(Listing))
       => /\ Len(EntryLines) = Len(file_sizes)
          /\ \A i \in 1..Len(EntryLines) : Shows(EntryLines[i], file_sizes[i].path)
          /\ unicode_errors = Unencodable(ListingEncoding)

\* C8: when the -o file cannot be opened, the run prints the open error at
\* once and nothing else after it: no header, no entry line, no error report
\* section, nothing in the file; it returns 0 and the scanner's sorted result
\* stays as it was.
OpenFailureSkipsListing ==
    (args.output /= << >> /\ ~Opens(args.output) /\ file_sizes /= << >>
     /\ pc \in {"report", "done", "raised"})
    => /\ stdout = <<Line("scanned_total", RawSize(file_count), << >>),
                     Line("open_error", NoSize, << >>)>>
       /\ file_lines = << >>
       /\ output_file = "none"
       /\ pc /= "raised"
       /\ pc = "done" => exit_code = "0"
       /\ Len(scan_file_sizes) = Len(Sized)
       /\ \A i, j \in 1..Len(scan_file_sizes) :
             i < j => scan_file_sizes[i].size >= scan_file_sizes[j].size

\* the run ended after a failed open, with entries to list and access errors
\* recorded by the scan
OpenFailureSkipsListingWitness ==
    /\ pc = "done"
    /\ args.output /= << >> /\ ~Opens(args.output)
    /\ Len(file_sizes) >= 2
    /\ scan_error_paths /= << >>

\* 1024^k
Power1024(k) == [i \in 1..(k + 1) |-> IF i = k + 1 THEN 1 ELSE 0]

AllUnits == Units \o <<"PB">>
UnitIndex(unit) == CHOOSE k \in 1..Len(AllUnits) : AllUnits[k] = unit

UnitOfRange ==
    result /= NoResult
    => /\ ~LessEq(Power1024(1), size) => result.unit = "B"
       /\ \A k \in 1..Len(Units) :
             (LessEq(Power1024(k - 1), size) /\ ~LessEq(Power1024(k), size))
             => result.unit = Units[k]
       /\ LessEq(Power1024(Len(Units)), size) => result.unit = "PB"
       /\ result.unit \in {AllUnits[k] : k \in 1..Len(AllUnits)}

UnitMonotonic ==
    (result /= NoResult /\ result' /= NoResult /\ LessEq(size, size'))
    => UnitIndex(result.unit) <= UnitIndex(result'.unit)

\* C9: format_size gives unit B below 1024, the k-th unit of B, KB, MB, GB, TB
\* for 1024^k <= n < 1024^(k+1), and PB from 1024^5 on, never a unit above
\* PB; the unit index does not decrease when the byte count grows.
UnitSelection == [](UnitOfRange) /\ [][UnitMonotonic]_vars

\* a byte count of at least 1024^6 was formatted
UnitSelectionWitness ==
    /\ result /= NoResult
    /\ LessEq(Power1024(Len(Units) + 1), size)
    /\ result.unit = "PB"

\* C10: "No files found" is printed only in runs whose scan sized no file:
\* if a file was sized, whatever -n is, the header and the table are written
\* (unless the -o file cannot be opened) and "No files found" is not.
NoFilesOnlyWhenNoneSized ==
    (pc = "done" /\ directory_is_dir)
    => /\ "no_files_found" \in Kinds(stdout) => file_count = 0
       /\ (file_count > 0 /\ (args.output = << >> \/ Opens(args.output)))
          => "header" \in Kinds(Listing)

====
